---- MODULE Spec2Model ----
(***************************************************************************)
(* State-machine model of bot.py: the market-data feed thread that fills   *)
(* the rolling price buffers, the indicator functions and get_signal, the  *)
(* chat-command handlers that maintain the subscription table, and the     *)
(* alert_pair worker threads.                                              *)
(*                                                                         *)
(* Prices are integers in units of 0.0001 (1.1000 is 11000).  Python's     *)
(* None is the empty tuple and a present value v is <<v>>.                 *)
(***************************************************************************)
EXTENDS Integers, Sequences, FiniteSets, TLC

(***************************************************************************)
(* Configuration (bot.py lines 16-20)                                      *)
(***************************************************************************)
PRICE_HISTORY_LENGTH == 50

\* 0.0005 in units of 0.0001
SIGNAL_THRESHOLD == 5

SUPPORTED_PAIRS == {"frxEURUSD", "frxGBPUSD"}

\* default period of calculate_rsi / calculate_ema and the literal of get_signal
period == 14

(***************************************************************************)
(* Bounds of the model                                                     *)
(***************************************************************************)
\* ticks delivered per instrument when only the feed runs
MaxTicks == 52

\* ticks delivered per instrument when pollers run beside the feed
MaxPollTicks == 15

\* chat ids 1..MaxChat
MaxChat == 1

\* alert_pair threads started in one run
MaxThreads == 2

\* alerts recorded by the notification sink in one run
MaxAlerts == 3

None == <<>>

Some(v) == <<v>>

Val(o) == o[1]

Chats == 1..MaxChat

(***************************************************************************)
(* Text: str.upper() and int()                                             *)
(***************************************************************************)
\* the characters of every text the model handles
Spell ==
  [ frxEURUSD |-> <<"f","r","x","E","U","R","U","S","D">>,
    frxGBPUSD |-> <<"f","r","x","G","B","P","U","S","D">>,
    FRXEURUSD |-> <<"F","R","X","E","U","R","U","S","D">>,
    FRXGBPUSD |-> <<"F","R","X","G","B","P","U","S","D">>,
    frxeurusd |-> <<"f","r","x","e","u","r","u","s","d">>,
    FRXXAUUSD |-> <<"F","R","X","X","A","U","U","S","D">>,
    refresh   |-> <<"r","e","f","r","e","s","h">>,
    REFRESH   |-> <<"R","E","F","R","E","S","H">> ]

Texts == DOMAIN Spell

LowerCase == <<"a","b","c","d","e","f","g","h","i","j","k","l","m",
               "n","o","p","q","r","s","t","u","v","w","x","y","z">>

UpperCase == <<"A","B","C","D","E","F","G","H","I","J","K","L","M",
               "N","O","P","Q","R","S","T","U","V","W","X","Y","Z">>

\* str.upper() on one character: a lower-case letter maps to its capital
UpperChar(c) ==
  IF \E i \in 1..Len(LowerCase) : LowerCase[i] = c
    THEN UpperCase[CHOOSE i \in 1..Len(LowerCase) : LowerCase[i] = c]
    ELSE c

\* str.upper(): character by character
Upper(t) ==
  LET up == [i \in 1..Len(Spell[t]) |-> UpperChar(Spell[t][i])]
  IN  CHOOSE u \in Texts : Spell[u] = up

\* the interval texts a request may carry, as sign and digits
IntervalSpell ==
  ("5" :> <<"5">>) @@ ("10" :> <<"1","0">>) @@ ("0" :> <<"0">>) @@
  ("-5" :> <<"-","5">>) @@ ("abc" :> <<"a","b","c">>)

IntervalTexts == DOMAIN IntervalSpell

Digits == <<"0","1","2","3","4","5","6","7","8","9">>

IsDigit(c) == \E d \in 1..Len(Digits) : Digits[d] = c

DigitVal(c) == (CHOOSE d \in 1..Len(Digits) : Digits[d] = c) - 1

RECURSIVE DigitsVal(_)
DigitsVal(s) ==
  IF s = <<>> THEN 0
  ELSE 10 * DigitsVal(SubSeq(s, 1, Len(s) - 1)) + DigitVal(s[Len(s)])

\* int(text): None stands for the ValueError int() raises
ParseInt(t) ==
  LET s == IntervalSpell[t]
      neg == s # <<>> /\ s[1] = "-"
      ds == IF neg THEN Tail(s) ELSE s
  IN  IF ds = <<>> \/ \E i \in 1..Len(ds) : ~IsDigit(ds[i])
        THEN None
        ELSE Some(IF neg THEN 0 - DigitsVal(ds) ELSE DigitsVal(ds))

(***************************************************************************)
(* Indicators (bot.py lines 58-76).  A computed indicator is the exact     *)
(* fraction n/d, kept as the record [n, d] with d > 0.                     *)
(***************************************************************************)
RECURSIVE SumUps(_)
\* deltas[deltas > 0].sum() over np.diff of the whole list
SumUps(l) ==
  IF Len(l) < 2 THEN 0
  ELSE LET delta == l[Len(l)] - l[Len(l) - 1]
       IN  SumUps(SubSeq(l, 1, Len(l) - 1)) + (IF delta > 0 THEN delta ELSE 0)

RECURSIVE SumDowns(_)
\* -deltas[deltas < 0].sum() over np.diff of the whole list
SumDowns(l) ==
  IF Len(l) < 2 THEN 0
  ELSE LET delta == l[Len(l)] - l[Len(l) - 1]
       IN  SumDowns(SubSeq(l, 1, Len(l) - 1)) + (IF delta < 0 THEN 0 - delta ELSE 0)

\* ups and downs are both divided by period, which cancels in rs = ups / downs
calculate_rsi(prices_list) ==
  IF Len(prices_list) < period THEN None
  ELSE LET ups == SumUps(prices_list)
           downs == SumDowns(prices_list)
       IN  IF downs = 0 THEN Some([n |-> 100, d |-> 1])
           ELSE Some([n |-> 100 * ups, d |-> ups + downs])

\* np.exp(np.linspace(-1., 0., period)) in thousandths, oldest index first
Weights == <<368, 397, 429, 463, 500, 540, 584, 630, 681, 735, 794, 857, 926, 1000>>

RECURSIVE SumSeq(_)
SumSeq(s) == IF s = <<>> THEN 0 ELSE s[1] + SumSeq(Tail(s))

\* np.convolve(a, v, mode='valid')[0] for len(a) = len(v): sum of a[i] * v[n-1-i]
Convolve(a, v) == SumSeq([i \in 1..Len(a) |-> a[i] * v[Len(v) + 1 - i]])

calculate_ema(prices_list) ==
  IF Len(prices_list) < period THEN None
  ELSE LET window == SubSeq(prices_list, Len(prices_list) - period + 1, Len(prices_list))
       IN  Some([n |-> Convolve(window, Weights), d |-> SumSeq(Weights)])

\* a < b, a > b for fractions and integers
FracLess(f, k) == f.n < k * f.d

FracMore(f, k) == f.n > k * f.d

\* n/d rounded to the nearest integer (formatting to a fixed number of decimals)
Round(n, d) == (2 * n + d) \div (2 * d)

\* f"{rsi:.2f}" in hundredths and f"{ema:.5f}" in units of 0.00001
Fmt2(f) == Round(100 * f.n, f.d)

Fmt5(f) == 10 * (f.n \div f.d) + Round(10 * (f.n % f.d), f.d)

(***************************************************************************)
(* get_signal (bot.py lines 78-99)                                         *)
(***************************************************************************)
NoSignal == [signal |-> None, desc |-> None, img |-> None, price |-> None]

\* a classification that leaves the comparison of price and EMA out of BUY
ClassifyRsiOnly(symbol, rsi, ema, current_price) ==
  IF rsi = None \/ ema = None
    THEN [signal |-> None, desc |-> None, img |-> None, price |-> None]
  ELSE IF Val(rsi).n < 30 * Val(rsi).d
    THEN [signal |-> Some("BUY"), desc |-> Some("Strong Buy"),
          img |-> Some("buy.png"), price |-> Some(current_price)]
  ELSE [signal |-> Some("LOWER_RISK"), desc |-> Some("Lower-Risk Trade"),
        img |-> Some("sell.png"), price |-> Some(current_price)]

\* lines 85-99: the classification of one (rsi, ema, current_price) triple
Classify(symbol, rsi, ema, current_price) ==
  IF rsi = None \/ ema = None THEN NoSignal
  ELSE LET r == Val(rsi)
           e == Val(ema)
           text(label) == Some([label |-> label, symbol |-> symbol,
                                rsi |-> Fmt2(r), ema |-> Fmt5(e)])
       IN  IF FracLess(r, 30) /\ e.n < current_price * e.d
             THEN [signal |-> Some("BUY"), desc |-> text("Strong Buy"),
                   img |-> Some("buy.png"), price |-> Some(current_price)]
           ELSE IF FracMore(r, 70) /\ e.n > current_price * e.d
             THEN [signal |-> Some("SELL"), desc |-> text("Strong Sell"),
                   img |-> Some("sell.png"), price |-> Some(current_price)]
           ELSE [signal |-> Some("LOWER_RISK"), desc |-> text("Lower-Risk Trade"),
                 img |-> Some(IF FracLess(r, 50) THEN "buy.png" ELSE "sell.png"),
                 price |-> Some(current_price)]

\* get_signal run without interruption on the list price_list
SignalOf(symbol, price_list) ==
  IF Len(price_list) < 14 THEN NoSignal
  ELSE Classify(symbol, calculate_rsi(price_list), calculate_ema(price_list),
                price_list[Len(price_list)])

(***************************************************************************)
(* State                                                                   *)
(***************************************************************************)
VARIABLES
  pairs,          \* SUPPORTED_PAIRS as loaded at start-up (line 20)
  prices,         \* prices: symbol -> list of quotes (line 30)
  subscriptions,  \* subscriptions: chat_id -> pair -> interval (line 104)
  last_sent,      \* last_sent: chat_id -> pair -> last signal (line 105)
  last_price,     \* last_price: chat_id -> pair -> last price (line 106)
  threads,        \* the alert_pair threads in the order they were started
  feed,           \* where the feed thread stands inside on_message
  poll,           \* where button_handler stands inside get_signal
  reply,          \* what the most recent command handler answered
  arrived,        \* every quote on_message was given, per symbol
  sink            \* every alert handed to bot.send_photo / bot.send_message

vars == <<pairs, prices, subscriptions, last_sent, last_price, threads,
          feed, poll, reply, arrived, sink>>

NoReply == [cmd |-> "none", chat |-> 0, args |-> <<>>, pair |-> None, interval |-> None,
            out |-> "none", text |-> None, flip |-> FALSE]

PollIdle == [pc |-> "idle", symbol |-> None, rsi |-> None, ema |-> None,
             at_rsi |-> None, at_ema |-> None, at_price |-> None]

InitWith(cfg) ==
  /\ pairs = cfg
  /\ prices = [p \in cfg |-> <<>>]
  /\ subscriptions = <<>>
  /\ last_sent = <<>>
  /\ last_price = <<>>
  /\ threads = <<>>
  /\ feed = [pc |-> "idle", symbol |-> None]
  /\ poll = PollIdle
  /\ reply = NoReply
  /\ arrived = [p \in cfg |-> <<>>]
  /\ sink = <<>>

\* the program as configured
Init == InitWith(SUPPORTED_PAIRS)

(***************************************************************************)
(* The quotes the market sends: four courses that start at 1.1000          *)
(***************************************************************************)
\* rising by 0.0001 with every tick
Ramp(i) == 11000 + (i - 1)

\* a drop of 0.0010, thirteen quiet ticks, then a rise of 0.0001
Dip(i) == IF i = 1 THEN 11000 ELSE IF i <= 14 THEN 10990 ELSE 10991

\* a rise of 0.0010, thirteen quiet ticks, then a fall of 0.0001
Peak(i) == IF i = 1 THEN 11000 ELSE IF i <= 14 THEN 11010 ELSE 11009

\* fourteen quiet ticks, then a drop of 0.0005
Flat(i) == IF i <= 14 THEN 11000 ELSE 10995

RECURSIVE Total(_, _)
\* the number of quotes log holds for the symbols of S
Total(log, S) ==
  IF S = {} THEN 0
  ELSE LET p == CHOOSE x \in S : TRUE
       IN  Len(log[p]) + Total(log, S \ {p})

\* the quotes that may follow the quotes received so far; only the rising
\* course goes on beyond MaxPollTicks quotes
NextQuotes(log) ==
  LET k == Len(log) + 1
      Is(Course(_)) == \A i \in 1..Len(log) : log[i] = Course(i)
      Short(Course(_)) == IF Is(Course) /\ k <= MaxPollTicks THEN {Course(k)} ELSE {}
  IN  (IF Is(Ramp) THEN {Ramp(k)} ELSE {}) \cup Short(Dip) \cup Short(Peak) \cup Short(Flat)

(***************************************************************************)
(* The feed thread: on_message (bot.py lines 33-40)                        *)
(***************************************************************************)
\* a list that loses its newest element instead of its oldest
EvictNewest(l) == SubSeq(l, 1, Len(l) - 1)

\* line 40: prices[symbol].pop(0)
Evict(l) == Tail(l)

\* lines 34-38: a tick message arrives and its quote is appended
on_message_append(symbol, quote) ==
  /\ feed.pc = "idle"
  /\ prices' = [prices EXCEPT ![symbol] = Append(@, quote)]
  /\ arrived' = [arrived EXCEPT ![symbol] = Append(@, quote)]
  /\ feed' = [feed EXCEPT !.pc = "evict", !.symbol = Some(symbol)]
  /\ UNCHANGED <<pairs, subscriptions, last_sent, last_price, threads, poll, reply, sink>>

\* lines 39-40: the oldest quote is dropped when the list is over its length
on_message_evict ==
  /\ feed.pc = "evict"
  /\ prices' = [prices EXCEPT ![Val(feed.symbol)] =
                  IF Len(@) > PRICE_HISTORY_LENGTH THEN Evict(@) ELSE @]
  /\ feed' = [feed EXCEPT !.pc = "idle", !.symbol = None]
  /\ UNCHANGED <<pairs, subscriptions, last_sent, last_price, threads, poll, reply,
                 arrived, sink>>

\* on_message from its first line to its last, without a step of another
\* thread in between
on_message(symbol, quote) ==
  /\ feed.pc = "idle"
  /\ prices' = [prices EXCEPT ![symbol] =
                  IF Len(@) + 1 > PRICE_HISTORY_LENGTH
                    THEN Evict(Append(@, quote)) ELSE Append(@, quote)]
  /\ arrived' = [arrived EXCEPT ![symbol] = Append(@, quote)]
  /\ UNCHANGED <<pairs, subscriptions, last_sent, last_price, threads, feed, poll,
                 reply, sink>>

\* a tick for a supported symbol, while fewer than `limit` ticks have arrived
Tick(limit) ==
  \E symbol \in pairs :
    \E quote \in NextQuotes(arrived[symbol]) :
      /\ Total(arrived, pairs) < limit
      /\ on_message_append(symbol, quote)

\* a tick for a symbol of `symbols`, handled in one step, while fewer than
\* MaxPollTicks ticks have arrived
TickOn(symbols) ==
  \E symbol \in symbols :
    \E quote \in NextQuotes(arrived[symbol]) :
      /\ Total(arrived, pairs) < MaxPollTicks
      /\ on_message(symbol, quote)

FeedTick == Tick(MaxTicks)

\* the feed thread alone
NextFeed == FeedTick \/ on_message_evict

SpecFeed == Init /\ [][NextFeed]_vars

(***************************************************************************)
(* The connection: deriv_ws (bot.py lines 32-53)                           *)
(***************************************************************************)
\* everything but the feed thread's own record
FeedFrame == <<pairs, prices, subscriptions, last_sent, last_price, threads, poll,
               reply, arrived, sink>>

\* line 53 has started the thread and deriv_ws stands before line 51; `sent`
\* holds the symbols requested over the connection now open
InitConn ==
  /\ pairs = SUPPORTED_PAIRS
  /\ prices = [p \in SUPPORTED_PAIRS |-> <<>>]
  /\ subscriptions = <<>>
  /\ last_sent = <<>>
  /\ last_price = <<>>
  /\ threads = <<>>
  /\ feed = [pc |-> "l51", symbol |-> None, sent |-> {}]
  /\ poll = PollIdle
  /\ reply = NoReply
  /\ arrived = [p \in SUPPORTED_PAIRS |-> <<>>]
  /\ sink = <<>>

\* lines 42-44, called by run_forever once the connection is open: one
\* request per entry of SUPPORTED_PAIRS
on_open ==
  /\ feed.pc = "l51"
  /\ feed' = [feed EXCEPT !.pc = "idle", !.sent = pairs]
  /\ UNCHANGED FeedFrame

\* the connection is lost between two messages
ConnectionLost ==
  /\ feed.pc = "idle"
  /\ feed' = [feed EXCEPT !.pc = "lost", !.sent = {}]
  /\ UNCHANGED FeedFrame

\* line 51: run_forever() is called without a reconnect interval and inside no
\* loop; websocket-client then closes the application and returns when the
\* connection is lost, deriv_ws returns and its thread ends
run_forever_returns ==
  /\ feed.pc = "lost"
  /\ feed' = [feed EXCEPT !.pc = "returned"]
  /\ UNCHANGED FeedFrame

ConnTick == Tick(MaxPollTicks)

\* the feed thread from its start
NextConn ==
  \/ on_open
  \/ ConnTick
  \/ on_message_evict
  \/ ConnectionLost
  \/ run_forever_returns

\* the thread is scheduled: a step of the program that can be taken is taken in
\* the end (ticks and losses of the connection come as the outside sends them)
SpecConn ==
  /\ InitConn
  /\ [][NextConn]_vars
  /\ WF_vars(on_open)
  /\ WF_vars(on_message_evict)
  /\ WF_vars(run_forever_returns)

\* symbols the feed may name that SUPPORTED_PAIRS does not hold
UnknownSymbols == {"frxUSDJPY", "R_100"}

\* lines 36-38 for any symbol: prices is a plain dict, and prices[symbol]
\* raises KeyError for a key it does not hold.  The exception leaves
\* on_message; how run_forever goes on after it is not part of bot.py.
on_message_38(symbol, quote) ==
  IF symbol \in DOMAIN prices
    THEN on_message_append(symbol, quote)
    ELSE /\ feed.pc = "idle"
         /\ feed' = [feed EXCEPT !.pc = "KeyError", !.symbol = Some(symbol)]
         /\ UNCHANGED FeedFrame

\* a tick for a symbol outside SUPPORTED_PAIRS
UnknownTick ==
  \E symbol \in UnknownSymbols : on_message_38(symbol, Ramp(1))

\* the feed thread when ticks for other symbols may arrive too
NextUnknown ==
  \/ ConnTick
  \/ on_message_evict
  \/ UnknownTick

SpecUnknown == Init /\ [][NextUnknown]_vars

(***************************************************************************)
(* Python dictionaries as functions                                        *)
(***************************************************************************)
\* d[k] = v
SetItem(d, k, v) == [x \in DOMAIN d \cup {k} |-> IF x = k THEN v ELSE d[x]]

\* d.get(k, default)
Get(d, k, default) == IF k \in DOMAIN d THEN d[k] ELSE default

\* d[k1][k2] = v, where d[k1] exists
SetItem2(d, k1, k2, v) == [d EXCEPT ![k1] = SetItem(@, k2, v)]

(***************************************************************************)
(* Command handlers (bot.py lines 155-191)                                 *)
(***************************************************************************)
\* the outcome of a handler: the request (cmd, chat, args), the values the handler
\* derived from it (pair, interval), and what it answered (out, text)
Answer(cmd, chat_id, args, pair, interval, out, text) ==
  [cmd |-> cmd, chat |-> chat_id, args |-> args, pair |-> pair, interval |-> interval,
   out |-> out, text |-> text, flip |-> ~reply.flip]

\* line 168: threading.Thread(target=alert_pair, args=(chat_id, pair, interval)).start()
StartThread(chat_id, pair, interval) ==
  Append(threads, [chat |-> chat_id, pair |-> pair, interval |-> interval,
                   pc |-> "l114", got |-> NoSignal, send_alert |-> FALSE,
                   cancelled |-> FALSE])

\* subscribe_command, lines 155-169; args is context.args
subscribe_command(chat_id, args) ==
  IF Len(args) < 2
    THEN /\ reply' = Answer("subscribe", chat_id, args, None, None, "Usage", None)
         /\ UNCHANGED <<subscriptions, threads>>
  ELSE LET pair == Upper(args[1])
           interval == ParseInt(args[2])
       IN  IF interval = None
             THEN \* int() raises ValueError at line 161 and the handler ends
                  /\ reply' = Answer("subscribe", chat_id, args, Some(pair), None,
                                     "ValueError", None)
                  /\ UNCHANGED <<subscriptions, threads>>
           ELSE IF pair \notin pairs
             THEN /\ reply' = Answer("subscribe", chat_id, args, Some(pair), interval,
                                     "Unsupported", None)
                  /\ UNCHANGED <<subscriptions, threads>>
           ELSE /\ subscriptions' =
                     SetItem(subscriptions, chat_id,
                             SetItem(Get(subscriptions, chat_id, <<>>), pair, Val(interval)))
                /\ threads' = StartThread(chat_id, pair, Val(interval))
                /\ reply' = Answer("subscribe", chat_id, args, Some(pair), interval,
                                   "Subscribed", None)

\* unsubscribe_command, lines 171-181
unsubscribe_command(chat_id, args) ==
  IF Len(args) < 1
    THEN /\ reply' = Answer("unsubscribe", chat_id, args, None, None, "Usage", None)
         /\ UNCHANGED subscriptions
  ELSE LET pair == Upper(args[1])
       IN  IF chat_id \in DOMAIN subscriptions /\ pair \in DOMAIN subscriptions[chat_id]
             THEN /\ subscriptions' = SetItem2(subscriptions, chat_id, pair, 0)
                  /\ reply' = Answer("unsubscribe", chat_id, args, Some(pair), None,
                                     "Unsubscribed", None)
           ELSE /\ reply' = Answer("unsubscribe", chat_id, args, Some(pair), None,
                                   "NotSubscribed", None)
                /\ UNCHANGED subscriptions

\* list_command, lines 183-191: the lines of the message, one per entry of the dict
list_command(chat_id) ==
  IF chat_id \notin DOMAIN subscriptions \/ DOMAIN subscriptions[chat_id] = {}
    THEN reply' = Answer("list", chat_id, <<>>, None, None, "NoActive", None)
  ELSE reply' = Answer("list", chat_id, <<>>, None, None, "Active",
                       Some({<<pair, subscriptions[chat_id][pair]>> :
                               pair \in DOMAIN subscriptions[chat_id]}))

\* the handlers run one at a time on the event loop: none starts while
\* button_handler is inside get_signal
MainIdle == poll.pc = "idle"

\* the argument lists a command may carry
PairTexts == Texts \ {"refresh", "REFRESH"}

PairArgs == {<<>>} \cup {<<t>> : t \in PairTexts}

SubscribeArgs == PairArgs \cup {<<t, i>> : t \in PairTexts, i \in IntervalTexts}

\* whether subscribe_command(chat_id, args) reaches line 168
Starts(args) ==
  /\ Len(args) >= 2
  /\ ParseInt(args[2]) # None
  /\ Upper(args[1]) \in pairs

Subscribe ==
  \E chat_id \in Chats, args \in SubscribeArgs :
    /\ MainIdle
    /\ Starts(args) => Len(threads) < MaxThreads
    /\ subscribe_command(chat_id, args)
    /\ UNCHANGED <<pairs, prices, last_sent, last_price, feed, poll, arrived, sink>>

\* threads with `cancelled` set on those that were running for the key when
\* line 178 cleared its interval (a record of the history, read by no action)
Cancel(chat_id, pair) ==
  [tid \in DOMAIN threads |->
     IF /\ threads[tid].chat = chat_id
        /\ threads[tid].pair = pair
        /\ threads[tid].pc \notin {"done", "TypeError"}
       THEN [threads[tid] EXCEPT !.cancelled = TRUE]
       ELSE threads[tid]]

Unsubscribe ==
  \E chat_id \in Chats, args \in PairArgs :
    /\ MainIdle
    /\ unsubscribe_command(chat_id, args)
    /\ threads' = IF reply'.out = "Unsubscribed"
                    THEN Cancel(chat_id, Val(reply'.pair))
                    ELSE threads
    /\ UNCHANGED <<pairs, prices, last_sent, last_price, feed, poll, arrived, sink>>

List ==
  \E chat_id \in Chats :
    /\ MainIdle
    /\ list_command(chat_id)
    /\ UNCHANGED <<pairs, prices, subscriptions, last_sent, last_price, threads,
                   feed, poll, arrived, sink>>

\* status_command, lines 193-202: one description per key of the chat's dict;
\* "\n\n".join(messages) raises TypeError when a description is None
status_command(chat_id) ==
  IF chat_id \notin DOMAIN subscriptions \/ DOMAIN subscriptions[chat_id] = {}
    THEN reply' = Answer("status", chat_id, <<>>, None, None, "NoActive", None)
  ELSE LET messages == [pair \in DOMAIN subscriptions[chat_id] |->
                          SignalOf(pair, Get(prices, pair, <<>>)).desc]
       IN  IF \E pair \in DOMAIN messages : messages[pair] = None
             THEN reply' = Answer("status", chat_id, <<>>, None, None, "TypeError", None)
             ELSE reply' = Answer("status", chat_id, <<>>, None, None, "Status",
                                  Some(messages))

Status ==
  \E chat_id \in Chats :
    /\ MainIdle
    /\ status_command(chat_id)
    /\ UNCHANGED <<pairs, prices, subscriptions, last_sent, last_price, threads,
                   feed, poll, arrived, sink>>

(***************************************************************************)
(* alert_pair (bot.py lines 113-139), one step per line that reads or      *)
(* writes shared data.  A thread's get_signal call is taken in one step;   *)
(* its interleaving with the feed thread is modelled on button_handler.    *)
(***************************************************************************)
Goto(tid, pc) == [threads EXCEPT ![tid].pc = pc]

Others == <<pairs, prices, feed, poll, reply, arrived>>

\* line 114: if chat_id not in last_sent
alert_pair_114(tid) ==
  /\ threads[tid].pc = "l114"
  /\ threads' = Goto(tid, IF threads[tid].chat \notin DOMAIN last_sent
                            THEN "l115" ELSE "l116")
  /\ UNCHANGED <<subscriptions, last_sent, last_price, sink>>
  /\ UNCHANGED Others

\* line 115: last_sent[chat_id] = {}
alert_pair_115(tid) ==
  /\ threads[tid].pc = "l115"
  /\ last_sent' = SetItem(last_sent, threads[tid].chat, <<>>)
  /\ threads' = Goto(tid, "l116")
  /\ UNCHANGED <<subscriptions, last_price, sink>>
  /\ UNCHANGED Others

\* line 116: if chat_id not in last_price
alert_pair_116(tid) ==
  /\ threads[tid].pc = "l116"
  /\ threads' = Goto(tid, IF threads[tid].chat \notin DOMAIN last_price
                            THEN "l117" ELSE "l118")
  /\ UNCHANGED <<subscriptions, last_sent, last_price, sink>>
  /\ UNCHANGED Others

\* line 117: last_price[chat_id] = {}
alert_pair_117(tid) ==
  /\ threads[tid].pc = "l117"
  /\ last_price' = SetItem(last_price, threads[tid].chat, <<>>)
  /\ threads' = Goto(tid, "l118")
  /\ UNCHANGED <<subscriptions, last_sent, sink>>
  /\ UNCHANGED Others

\* line 118: subscriptions.get(chat_id, {}).get(pair, 0) > 0
Live(chat_id, pair) == Get(Get(subscriptions, chat_id, <<>>), pair, 0) > 0

\* line 118: the loop condition; the thread ends when it is false
alert_pair_118(tid) ==
  /\ threads[tid].pc = "l118"
  /\ threads' = IF Live(threads[tid].chat, threads[tid].pair)
                  THEN Goto(tid, "l119")
                  ELSE [threads EXCEPT ![tid].pc = "done", ![tid].got = NoSignal,
                                       ![tid].send_alert = FALSE]
  /\ UNCHANGED <<subscriptions, last_sent, last_price, sink>>
  /\ UNCHANGED Others

\* lines 119-120: signal, desc, img, price = get_signal(pair); send_alert = False
alert_pair_119(tid) ==
  /\ threads[tid].pc = "l119"
  /\ threads' = [threads EXCEPT ![tid].pc = "l123",
                                ![tid].got = SignalOf(threads[tid].pair,
                                                      prices[threads[tid].pair]),
                                ![tid].send_alert = FALSE]
  /\ UNCHANGED <<subscriptions, last_sent, last_price, sink>>
  /\ UNCHANGED Others

\* line 123: signal and last_sent[chat_id].get(pair) != signal
SignalChanged(t) ==
  /\ t.got.signal # None
  /\ Get(last_sent[t.chat], t.pair, None) # t.got.signal

\* lines 123-124 and, when the test fails, on to the elif of line 126
alert_pair_123(tid) ==
  /\ threads[tid].pc = "l123"
  /\ threads' = IF SignalChanged(threads[tid])
                  THEN [threads EXCEPT ![tid].pc = "l131", ![tid].send_alert = TRUE]
                  ELSE Goto(tid, "l126")
  /\ UNCHANGED <<subscriptions, last_sent, last_price, sink>>
  /\ UNCHANGED Others

\* abs(a - b)
Abs(x) == IF x < 0 THEN 0 - x ELSE x

\* line 127: abs(price - last_price[chat_id][pair]) >= SIGNAL_THRESHOLD
PriceMoved(t) == Abs(Val(t.got.price) - Val(last_price[t.chat][t.pair])) >= SIGNAL_THRESHOLD

\* lines 126-130: the price test; price = None makes the subtraction raise
\* TypeError, which ends the thread
alert_pair_126(tid) ==
  /\ threads[tid].pc = "l126"
  /\ threads' =
       LET t == threads[tid]
       IN  IF t.pair \notin DOMAIN last_price[t.chat] THEN Goto(tid, "l139")
           ELSE IF t.got.price = None THEN Goto(tid, "TypeError")
           ELSE IF PriceMoved(t)
             THEN [threads EXCEPT ![tid].pc = "l131", ![tid].send_alert = TRUE]
           ELSE Goto(tid, "l139")
  /\ UNCHANGED <<subscriptions, last_sent, last_price, sink>>
  /\ UNCHANGED Others

\* line 131: last_sent[chat_id][pair] = signal
alert_pair_131(tid) ==
  /\ threads[tid].pc = "l131"
  /\ last_sent' = SetItem2(last_sent, threads[tid].chat, threads[tid].pair,
                           threads[tid].got.signal)
  /\ threads' = Goto(tid, "l132")
  /\ UNCHANGED <<subscriptions, last_price, sink>>
  /\ UNCHANGED Others

\* a thread that goes on to send without storing the price
SendBeforePrice(tid) ==
  /\ threads[tid].pc = "l132"
  /\ threads' = [threads EXCEPT ![tid].pc = "l133"]
  /\ UNCHANGED <<subscriptions, last_sent, last_price, sink>>
  /\ UNCHANGED <<pairs, prices, feed, poll, reply, arrived>>

\* line 132: last_price[chat_id][pair] = price
alert_pair_132(tid) ==
  /\ threads[tid].pc = "l132"
  /\ last_price' = SetItem2(last_price, threads[tid].chat, threads[tid].pair,
                            threads[tid].got.price)
  /\ threads' = Goto(tid, "l133")
  /\ UNCHANGED <<subscriptions, last_sent, sink>>
  /\ UNCHANGED Others

\* lines 133-137: bot.send_photo when img is set, bot.send_message otherwise
Alert(t) ==
  [chat |-> t.chat, pair |-> t.pair, signal |-> t.got.signal, price |-> t.got.price,
   how |-> IF t.got.img # None THEN "photo" ELSE "message",
   img |-> t.got.img, caption |-> t.got.desc]

alert_pair_133(tid) ==
  /\ threads[tid].pc = "l133"
  /\ Len(sink) < MaxAlerts
  /\ sink' = Append(sink, Alert(threads[tid]))
  /\ threads' = Goto(tid, "l139")
  /\ UNCHANGED <<subscriptions, last_sent, last_price>>
  /\ UNCHANGED Others

\* line 139: time.sleep(interval), with the interval the thread was started with
alert_pair_139(tid) ==
  /\ threads[tid].pc = "l139"
  /\ threads' = Goto(tid, "l118")
  /\ UNCHANGED <<subscriptions, last_sent, last_price, sink>>
  /\ UNCHANGED Others

\* a thread that has been started and has not ended
Running(tid) == threads[tid].pc \notin {"done", "TypeError"}

(***************************************************************************)
(* button_handler (bot.py lines 204-217) and its get_signal call, one step *)
(* per read of the shared list prices[symbol] (lines 79-84)                *)
(***************************************************************************)
PollFrame == <<pairs, subscriptions, last_sent, last_price, threads, feed, arrived, sink>>

\* lines 205-209 and 216-217: the callback data picks the branch
button_handler(data) ==
  /\ poll.pc = "idle"
  /\ IF data \in pairs
       THEN /\ poll' = [PollIdle EXCEPT !.pc = "l80", !.symbol = Some(data)]
            /\ UNCHANGED reply
     ELSE IF data = "refresh"
       THEN /\ reply' = Answer("button", 0, <<data>>, Some(data), None, "Refreshed", None)
            /\ UNCHANGED poll
     ELSE /\ reply' = Answer("button", 0, <<data>>, Some(data), None, "Ignored", None)
          /\ UNCHANGED poll
  /\ UNCHANGED prices
  /\ UNCHANGED PollFrame

\* lines 79-81: price_list is the list object itself; too short a list ends the call
get_signal_80 ==
  /\ poll.pc = "l80"
  /\ poll' = IF Len(prices[Val(poll.symbol)]) < 14
               THEN [poll EXCEPT !.pc = "l211"]
               ELSE [poll EXCEPT !.pc = "l82"]
  /\ UNCHANGED <<prices, reply>>
  /\ UNCHANGED PollFrame

\* line 82: rsi = calculate_rsi(price_list), on the list as it is now
get_signal_82 ==
  /\ poll.pc = "l82"
  /\ poll' = [poll EXCEPT !.pc = "l83",
                          !.rsi = calculate_rsi(prices[Val(poll.symbol)]),
                          !.at_rsi = Some(prices[Val(poll.symbol)])]
  /\ UNCHANGED <<prices, reply>>
  /\ UNCHANGED PollFrame

\* line 83: ema = calculate_ema(price_list), on the list as it is now
get_signal_83 ==
  /\ poll.pc = "l83"
  /\ poll' = [poll EXCEPT !.pc = "l84",
                          !.ema = calculate_ema(prices[Val(poll.symbol)]),
                          !.at_ema = Some(prices[Val(poll.symbol)])]
  /\ UNCHANGED <<prices, reply>>
  /\ UNCHANGED PollFrame

\* line 84: current_price = price_list[-1], on the list as it is now
get_signal_84 ==
  /\ poll.pc = "l84"
  /\ poll' = [poll EXCEPT !.pc = "l211",
                          !.at_price = Some(prices[Val(poll.symbol)])]
  /\ UNCHANGED <<prices, reply>>
  /\ UNCHANGED PollFrame

\* what get_signal returns to line 210
PollResult ==
  IF poll.at_price = None THEN NoSignal
  ELSE Classify(Val(poll.symbol), poll.rsi, poll.ema,
                Val(poll.at_price)[Len(Val(poll.at_price))])

\* lines 211-215: reply_photo with the caption, or reply_text(desc); the
\* Bot API refuses a message without text
button_reply ==
  /\ poll.pc = "l211"
  /\ reply' = Answer("button", 0, <<Val(poll.symbol)>>, poll.symbol, None,
                     IF PollResult.img # None THEN "photo"
                     ELSE IF PollResult.desc = None THEN "BadRequest"
                     ELSE "text",
                     PollResult.desc)
  /\ poll' = PollIdle
  /\ UNCHANGED prices
  /\ UNCHANGED PollFrame

Button == \E data \in SUPPORTED_PAIRS \cup {"refresh"} : button_handler(data)

(***************************************************************************)
(* Specifications                                                          *)
(***************************************************************************)
PollTick == Tick(MaxPollTicks)

\* the program as configured, front end: the command handlers and the
\* instrument buttons while no tick has arrived yet
Next ==
  \/ Subscribe
  \/ Unsubscribe
  \/ List
  \/ Button
  \/ get_signal_80
  \/ button_reply

Spec == Init /\ [][Next]_vars

\* the program as configured: an instrument button pressed while the feed
\* thread delivers ticks
NextPoll ==
  \/ Button
  \/ get_signal_80
  \/ get_signal_82
  \/ get_signal_83
  \/ get_signal_84
  \/ button_reply
  \/ PollTick
  \/ on_message_evict

SpecPoll == Init /\ [][NextPoll]_vars

AlertPair ==
  \E tid \in DOMAIN threads :
    \/ alert_pair_114(tid)
    \/ alert_pair_115(tid)
    \/ alert_pair_116(tid)
    \/ alert_pair_117(tid)
    \/ alert_pair_118(tid)
    \/ alert_pair_119(tid)
    \/ alert_pair_123(tid)
    \/ alert_pair_126(tid)
    \/ alert_pair_131(tid)
    \/ alert_pair_132(tid)
    \/ alert_pair_133(tid)
    \/ alert_pair_139(tid)

\* the front end together with the steps of alert_pair, from the program as
\* configured
NextAll == Next \/ AlertPair

SpecAll == Init /\ [][NextAll]_vars

\* under SpecAll: subscribe_command never stores a subscription and never
\* starts a thread
NoThreadEver == threads = <<>> /\ subscriptions = <<>>

\* the same code with the identifiers of SUPPORTED_PAIRS in capitals, the only
\* form in which line 162 can find a normalised argument in the list
InitUpper == InitWith({Upper(p) : p \in SUPPORTED_PAIRS})

\* the command handlers alone: the subscription table under every request
NextReg ==
  \/ Subscribe
  \/ Unsubscribe
  \/ List

SpecReg == InitUpper /\ [][NextReg]_vars

\* the pair whose subscriptions, threads and ticks SpecAlert follows
Watched == {Upper("frxEURUSD")}

\* requests that subscribe_command accepts
SubscribeLive ==
  \E chat_id \in Chats, pair \in Watched, i \in {"5"} :
    /\ MainIdle
    /\ Len(threads) < MaxThreads
    /\ subscribe_command(chat_id, <<pair, i>>)
    /\ UNCHANGED <<pairs, prices, last_sent, last_price, feed, poll, arrived, sink>>

\* requests to unsubscribe
UnsubscribeLive ==
  \E chat_id \in Chats, pair \in Watched :
    /\ MainIdle
    /\ unsubscribe_command(chat_id, <<pair>>)
    /\ threads' = IF reply'.out = "Unsubscribed" THEN Cancel(chat_id, pair) ELSE threads
    /\ UNCHANGED <<pairs, prices, last_sent, last_price, feed, poll, arrived, sink>>

WatchedTick == TickOn(Watched)

\* the threads at work while ticks arrive
NextAlert ==
  \/ SubscribeLive
  \/ UnsubscribeLive
  \/ List
  \/ AlertPair
  \/ WatchedTick

SpecAlert == InitUpper /\ [][NextAlert]_vars

\* accepted requests that differ in their interval
Resubscribe ==
  \E chat_id \in Chats, pair \in Watched, i \in {"5", "10"} :
    /\ MainIdle
    /\ Len(threads) < MaxThreads
    /\ subscribe_command(chat_id, <<pair, i>>)
    /\ UNCHANGED <<pairs, prices, last_sent, last_price, feed, poll, arrived, sink>>

\* threads at work while their pair is subscribed again
NextResub ==
  \/ Resubscribe
  \/ UnsubscribeLive
  \/ AlertPair

SpecResub == InitUpper /\ [][NextResub]_vars

\* the program as configured, front end with the status request
NextFront == Next \/ Status

SpecFront == Init /\ [][NextFront]_vars

\* the status request beside accepted subscriptions and ticks
NextStatus ==
  \/ SubscribeLive
  \/ UnsubscribeLive
  \/ Status
  \/ WatchedTick

SpecStatus == InitUpper /\ [][NextStatus]_vars

(***************************************************************************)
(* Properties                                                              *)
(***************************************************************************)
\* the last n elements of l, all of l when it is shorter
LastN(l, n) == IF Len(l) <= n THEN l ELSE SubSeq(l, Len(l) - n + 1, Len(l))

\* the feed thread stands between two messages as far as symbol p goes
Settled(p) == feed.pc = "idle" \/ Val(feed.symbol) # p

\* C9: whenever on_message has run to its end, each symbol's list holds at most
\* PRICE_HISTORY_LENGTH quotes, and they are the most recent quotes received for
\* the symbol, in the order they arrived.  (Between line 38 and line 40 the list
\* holds one quote more; what another thread sees then is the matter of C10.)
C9_BoundedFifo ==
  \A p \in pairs :
    /\ Len(prices[p]) <= PRICE_HISTORY_LENGTH + 1
    /\ Settled(p) =>
         /\ Len(prices[p]) <= PRICE_HISTORY_LENGTH
         /\ prices[p] = LastN(arrived[p], PRICE_HISTORY_LENGTH)

\* more quotes than the list can hold have arrived for a symbol, and an older
\* quote has been dropped
C9_Witness ==
  \E p \in pairs :
    /\ Settled(p)
    /\ Len(arrived[p]) > PRICE_HISTORY_LENGTH
    /\ prices[p] # arrived[p]

\* a request has just been answered
Answered == reply'.flip # reply.flip

\* the interval a subscribe request carries, None when it is not a number
AskedInterval(r) == IF Len(r.args) >= 2 THEN ParseInt(r.args[2]) ELSE None

\* the interval stored for (chat_id, pair), 0 when there is none
Stored(chat_id, pair) == Get(Get(subscriptions, chat_id, <<>>), pair, 0)

\* C1: a subscribe request that names a supported pair and carries a positive
\* interval is answered "Subscribed", its interval is stored for the pair and
\* a thread is started for it.
C1_SubscribeAccepted ==
  ( /\ reply.cmd = "subscribe"
    /\ Len(reply.args) >= 2
    /\ reply.args[1] \in pairs
    /\ AskedInterval(reply) # None
    /\ Val(AskedInterval(reply)) > 0 )
  => /\ reply.out = "Subscribed"
     /\ Stored(reply.chat, reply.args[1]) = Val(AskedInterval(reply))
     /\ \E tid \in DOMAIN threads :
          threads[tid].chat = reply.chat /\ threads[tid].pair = reply.args[1]

AlertsOf(chat_id, pair) ==
  {i \in 1..Len(sink) : sink[i].chat = chat_id /\ sink[i].pair = pair}

RuleSignal(t) == t.got.signal # Get(last_sent[t.chat], t.pair, None)

\* (b) of the notify rule: a last price is stored for the pair and the current
\* price is at least SIGNAL_THRESHOLD away from it
RulePrice(t) ==
  /\ t.pair \in DOMAIN last_price[t.chat]
  /\ \/ Val(t.got.price) - Val(last_price[t.chat][t.pair]) >= SIGNAL_THRESHOLD
     \/ Val(last_price[t.chat][t.pair]) - Val(t.got.price) >= SIGNAL_THRESHOLD

Active(chat_id) ==
  {<<pair, Stored(chat_id, pair)>> :
     pair \in {p \in DOMAIN Get(subscriptions, chat_id, <<>>) : Stored(chat_id, p) > 0}}

C10_OneSnapshot ==
  (poll.pc = "l211" /\ poll.at_price # None)
    => /\ poll.at_rsi = poll.at_ema
       /\ poll.at_ema = poll.at_price
       /\ Len(Val(poll.at_price)) <= PRICE_HISTORY_LENGTH

\* C11: after every loss of the connection the feed thread is connected again
\* in the end, with a request sent for every symbol of SUPPORTED_PAIRS.
C11_FeedSelfHeals ==
  (feed.pc = "lost") ~> (feed.pc = "idle" /\ feed.sent = pairs)

\* the current price of a call of get_signal that got past line 84
PollPrice == Val(poll.at_price)[Len(Val(poll.at_price))]

\* the signal and the picture the rule gives for RSI r, EMA e and price p
RuleOf(r, e, p) ==
  IF r.n < 30 * r.d /\ p * e.d > e.n THEN <<"BUY", "buy.png">>
  ELSE IF r.n > 70 * r.d /\ p * e.d < e.n THEN <<"SELL", "sell.png">>
  ELSE IF r.n < 50 * r.d THEN <<"LOWER_RISK", "buy.png">>
  ELSE <<"LOWER_RISK", "sell.png">>

\* C12: what get_signal returns is fixed by RSI, EMA and current price: no
\* signal, description or picture when the list held fewer than 14 quotes;
\* otherwise BUY with buy.png iff RSI < 30 and price > EMA, SELL with sell.png
\* iff RSI > 70 and price < EMA, and LOWER_RISK in every other case, with
\* buy.png if RSI < 50 and sell.png if not.
C12_Classifier ==
  poll.pc = "l211" =>
    IF poll.at_price = None
      THEN PollResult = [signal |-> None, desc |-> None, img |-> None, price |-> None]
      ELSE /\ poll.rsi # None /\ poll.ema # None
           /\ <<Val(PollResult.signal), Val(PollResult.img)>>
                = RuleOf(Val(poll.rsi), Val(poll.ema), PollPrice)
           /\ PollResult.desc # None
           /\ PollResult.price = Some(PollPrice)

\* get_signal has returned BUY
C12_Witness ==
  /\ poll.pc = "l211"
  /\ poll.at_price # None
  /\ PollResult.signal = Some("BUY")

\* two fractions of the same value
FracEq(f, g) == f.n * g.d = g.n * f.d

\* C13: the RSI that get_signal computes from a list is the RSI of the list's
\* last `period` quotes alone: a list and its last `period` quotes, which agree
\* on that window, give the same RSI.
C13_RsiWindowOnly ==
  (poll.rsi # None /\ poll.at_rsi # None)
    => FracEq(Val(poll.rsi), Val(calculate_rsi(LastN(Val(poll.at_rsi), period))))

\* C14: with fewer than 14 quotes for a symbol no request ends in an error: the
\* answer to an instrument button is sent, the status request is answered, and
\* no alert_pair thread ends in an exception.
C14_NoneIsNoError ==
  /\ reply.cmd = "button" => reply.out # "BadRequest"
  /\ reply.cmd = "status" => reply.out # "TypeError"
  /\ \A tid \in DOMAIN threads :
       threads[tid].got = NoSignal => threads[tid].pc # "TypeError"

\* a text that names no entry of SUPPORTED_PAIRS, neither as written nor in
\* capitals
Outside(t) == t \notin pairs /\ Upper(t) \notin pairs

\* C15: a subscribe request for a pair outside SUPPORTED_PAIRS is answered
\* "Unsupported pair" and changes neither the subscriptions, nor the last
\* signals and prices, nor the threads.
C15_UnsupportedRejected ==
  [][( /\ Answered
       /\ reply'.cmd = "subscribe"
       /\ Len(reply'.args) >= 2
       /\ Outside(reply'.args[1]) )
       => /\ reply'.out = "Unsupported"
          /\ UNCHANGED <<subscriptions, last_sent, last_price, threads>>]_vars

\* the dot product that pairs the i-th element of a with the i-th element of v
Dot(a, v) == SumSeq([i \in 1..Len(a) |-> a[i] * v[i]])

\* C16: the EMA that get_signal computes from a list is the dot product of the
\* list's last `period` quotes, oldest first, with the normalised weights,
\* smallest first: the newest quote carries the largest weight.
C16_EmaNewestHeaviest ==
  (poll.ema # None /\ poll.at_ema # None)
    => /\ Val(poll.ema).d = SumSeq(Weights)
       /\ Val(poll.ema).n = Dot(LastN(Val(poll.at_ema), period), Weights)

\* C17: a tick for a symbol outside SUPPORTED_PAIRS ends without an error,
\* and get_signal for such a symbol sees an empty list and returns no signal.
C17_UnknownTickNoOp ==
  /\ feed.pc # "KeyError"
  /\ \A symbol \in UnknownSymbols :
       /\ Get(prices, symbol, <<>>) = <<>>
       /\ SignalOf(symbol, Get(prices, symbol, <<>>)) = NoSignal

Holds(d, k1, k2, v) ==
  /\ k1 \in DOMAIN d
  /\ k2 \in DOMAIN d[k1]
  /\ d[k1][k2] = v

\* no other thread was ever started for the pair of thread tid
OnlyThread(tid) ==
  \A t2 \in DOMAIN threads :
    t2 # tid => \/ threads[t2].chat # threads[tid].chat
                \/ threads[t2].pair # threads[tid].pair

====
